---- MODULE Spec2Model ----
(***************************************************************************)
(* Model of atomicapp/providers/openshift.py (class OpenShiftProvider).    *)
(*                                                                         *)
(* Python strings are sequences of symbols.  Kinds and resource names are  *)
(* spelled letter by letter (the namer looks at their letters); opaque     *)
(* strings (hosts, namespaces, object names, tokens) are one symbol long,  *)
(* and the empty string is <<>>.  None is a value of its own.              *)
(*                                                                         *)
(* Kinds are non-empty strings and "metadata", where present, is a         *)
(* mapping: the data model of the manifests the provider is written for.   *)
(*                                                                         *)
(* The caller invokes one method on a freshly constructed provider.        *)
(* init() cannot get past line 64, the only place that assigns             *)
(* oapi_resources and kapi_resources, so _process_artifacts() and, after   *)
(* it, deploy() are invoked directly: the catalog is an input of the call, *)
(* as self.artifacts and self.dryrun are, and the API bases are those      *)
(* lines 58-59 compute from self.providerapi.                              *)
(***************************************************************************)
EXTENDS Integers, Sequences, FiniteSets, TLC

VARIABLES
    pc,                  \* position of the caller / of the running method
    op,                  \* the method the caller invoked
    args,                \* the arguments / inputs of that invocation
    ret,                 \* the value the method returned (NoneV before)
    err,                 \* the exception that ended the method ("none" if none)
    providerapi,         \* self.providerapi
    access_token,        \* self.access_token
    namespace,           \* self.namespace
    kubernetes_api,      \* self.kubernetes_api
    openshift_api,       \* self.openshift_api
    oapi_resources,      \* self.oapi_resources
    kapi_resources,      \* self.kapi_resources
    artifacts,           \* self.artifacts: the manifests, in input order
    dryrun,              \* self.dryrun
    openshift_artifacts, \* self.openshift_artifacts: kind -> list of objects
    idx,                 \* loop position in _process_artifacts
    dkind,               \* deploy(): the kind whose list is being walked
    dpos,                \* deploy(): position in that list
    ddone,               \* deploy(): the kinds already walked
    http,                \* the HTTP requests issued, in order, with their outcome
    urls,                \* the URLs _get_url built during the session
    log                  \* the lines logged at info level

vars == <<pc, op, args, ret, err, providerapi, access_token, namespace,
          kubernetes_api, openshift_api, oapi_resources, kapi_resources,
          artifacts, dryrun, openshift_artifacts, idx, dkind, dpos, ddone,
          http, urls, log>>

\* ------------------------------------------------------------------ bounds

MaxKindLen == 3      \* letters of a generated kind
MaxEntries == 2      \* entries per list of a cluster-config file
MaxManifests == 2    \* manifests of one session

\* ------------------------------------------------------------------ strings

NoneV == <<"<None>">>

Str(s) == <<s>>

Truthy(v) == v # NoneV /\ v # <<>>

\* str.lower() on one letter
LowerChar(c) ==
    CASE c = "A" -> "a" [] c = "P" -> "p" [] c = "S" -> "s" [] c = "T" -> "t"
      [] c = "U" -> "u" [] c = "Y" -> "y" [] c = "J" -> "j"
      [] OTHER -> c

Lower(s) == [i \in 1..Len(s) |-> LowerChar(s[i])]

EndsWith(s, suf) ==
    /\ Len(s) >= Len(suf)
    /\ SubSeq(s, Len(s) - Len(suf) + 1, Len(s)) = suf

RECURSIVE RStrip(_, _)
\* str.rstrip(c): every trailing c is removed
RStrip(s, c) ==
    IF s # <<>> /\ s[Len(s)] = c THEN RStrip(SubSeq(s, 1, Len(s) - 1), c) ELSE s

Status == <<"s", "t", "a", "t", "u", "s">>

\* OpenShiftProvider._kind_to_resource, for a non-empty kind
_kind_to_resource(kind) ==
    LET singular == Lower(kind) IN
    IF EndsWith(singular, Status) THEN singular \o <<"e", "s">>
    ELSE IF singular[Len(singular)] = "s" THEN singular
    ELSE IF singular[Len(singular)] = "y"
         THEN RStrip(singular, "y") \o <<"i", "e", "s">>
         ELSE singular \o <<"s">>

\* ------------------------------------------------------------------ URLs
\* A URL is [root, dirs, file, query]: scheme and host (NoneV when the URL is
\* relative), the directory segments (each followed by "/"), the last segment
\* when no "/" follows it, and the query string (NoneV when there is none).

NoUrl == [root |-> NoneV, dirs |-> <<>>, file |-> <<>>, query |-> NoneV]

HostUrl(endpoint) == [root |-> endpoint, dirs |-> <<>>, file |-> <<>>, query |-> NoneV]

RelPath(dirs, file) == [root |-> NoneV, dirs |-> dirs, file |-> file, query |-> NoneV]

RelQuery(q) == [root |-> NoneV, dirs |-> <<>>, file |-> <<>>, query |-> q]

\* urlparse.urljoin(base, url) for a relative url without "..", "." or a leading "/"
urljoin(base, url) ==
    IF base = NoUrl THEN url
    ELSE IF url.dirs = <<>> /\ url.file = <<>>
         THEN [base EXCEPT !.query = IF url.query = NoneV THEN base.query ELSE url.query]
         ELSE [root |-> base.root, dirs |-> base.dirs \o url.dirs,
               file |-> url.file, query |-> url.query]

\* "%s" / "{}" formatting of a string or None
Fmt(v) == IF v = NoneV THEN Str("None") ELSE v

KubernetesApi(endpoint) == urljoin(HostUrl(endpoint), RelPath(<<Str("api"), Str("v1")>>, <<>>))

OpenshiftApi(endpoint) == urljoin(HostUrl(endpoint), RelPath(<<Str("oapi"), Str("v1")>>, <<>>))

_get_url_kapi_first(ns, kind, name, oapi, kapi, obase, kbase, token) ==
    LET resource == _kind_to_resource(kind)
        url0 == IF resource \in kapi THEN kbase
                ELSE IF resource \in oapi THEN obase
                ELSE NoUrl
        url1 == urljoin(url0, RelPath(<<Str("namespaces"), Fmt(ns), resource>>, <<>>))
        url2 == IF Truthy(name) THEN urljoin(url1, RelPath(<<>>, name)) ELSE url1
    IN urljoin(url2, RelQuery(Str("access_token=") \o Fmt(token)))

\* OpenShiftProvider._get_url, reading oapi_resources, kapi_resources,
\* openshift_api, kubernetes_api and access_token
_get_url(ns, kind, name, oapi, kapi, obase, kbase, token) ==
    LET resource == _kind_to_resource(kind)
        url0 == IF resource \in oapi THEN obase
                ELSE IF resource \in kapi THEN kbase
                ELSE NoUrl
        url1 == urljoin(url0, RelPath(<<Str("namespaces"), Fmt(ns), resource>>, <<>>))
        url2 == IF Truthy(name) THEN urljoin(url1, RelPath(<<>>, name)) ELSE url1
    IN urljoin(url2, RelQuery(Str("access_token=") \o Fmt(token)))

\* ------------------------------------------------------------------ configuration

DEFAULT_NAMESPACE == Str("default")
DefaultProviderApi == Str("https://127.0.0.1:8443")

\* status_code = None in _make_request
NoStatus == 0

\* a response body: json is FALSE when res.json() raises ValueError; has tells
\* whether the key the caller reads ("resources", "objects") is there, and
\* items is the list under it
Body(json, has, items) == [json |-> json, has |-> has, items |-> items]
NoBody == Body(FALSE, FALSE, <<>>)

\* an exception: its class, its message, and the status and body a
\* ProviderFailedException built from a response carries
Exc(type, msg) == [type |-> type, msg |-> msg, status |-> NoStatus, body |-> NoBody]
ExcResp(status, body) ==
    [type |-> "ProviderFailedException", msg |-> "status body",
     status |-> status, body |-> body]
NoErr == Exc("none", "")

Ok(v) == [err |-> NoErr, val |-> v]
Raise(e) == [err |-> e, val |-> NoneV]

\* index of the last entry of list named name, 0 when there is none
\* (the loops of _parse_kubeconf do not break at the first match)
LastNamed(list, name) ==
    LET S == {i \in 1..Len(list) : list[i].name = name}
    IN IF S = {} THEN 0 ELSE CHOOSE i \in S : \A j \in S : j <= i

\* OpenShiftProvider._parse_kubeconf on the parsed file kubecfg
_parse_kubeconf(kubecfg) ==
    LET ci == LastNamed(kubecfg.contexts, kubecfg.current)
    IN
    IF ci = 0
    THEN \* context is None: context["context"] raises in the first loop body run
         IF kubecfg.clusters # <<>> \/ kubecfg.users # <<>>
         THEN Raise(Exc("TypeError", "NoneType is not subscriptable"))
         ELSE Raise(Exc("ProviderFailedException", "Invalid"))
    ELSE LET context == kubecfg.contexts[ci]
             cli == LastNamed(kubecfg.clusters, context.cluster)
             ui == LastNamed(kubecfg.users, context.user)
         IN IF cli = 0 \/ ui = 0
            THEN Raise(Exc("ProviderFailedException", "Invalid"))
            ELSE Ok(<<kubecfg.clusters[cli].server,
                      kubecfg.users[ui].token,
                      context.namespace>>)

ResolveField_answers_win(a, p, cur) ==
    IF Truthy(a) THEN Ok(a)
    ELSE IF Truthy(p) THEN Ok(p)
    ELSE Ok(cur)

\* one round of the loop of _get_config_values: the value of field k after
\* it (cur is result[k] before), or a conflict
ResolveField(a, p, cur) ==
    IF Truthy(a) /\ Truthy(p) /\ a # p THEN Raise(Exc("ProviderFailedException", "conflicting values"))
    ELSE IF Truthy(a) THEN Ok(a)
    ELSE IF Truthy(p) THEN Ok(p)
    ELSE Ok(cur)

\* OpenShiftProvider._get_config_values. answers = <<providerapi, token,
\* namespace>> of answers.conf; config_file = <<>> (None) or <<kubecfg>>;
\* cur = <<self.providerapi, self.access_token, self.namespace>>
_get_config_values(answers, config_file, cur) ==
    LET pcfg == IF config_file = <<>> THEN Ok(<<NoneV, NoneV, NoneV>>)
                ELSE _parse_kubeconf(config_file[1])
    IN
    IF pcfg.err # NoErr THEN pcfg
    ELSE LET ns == ResolveField(answers[3], pcfg.val[3], cur[3])
             tok == ResolveField(answers[2], pcfg.val[2], cur[2])
             api == ResolveField(answers[1], pcfg.val[1], cur[1])
         IN IF ns.err # NoErr THEN ns
            ELSE IF tok.err # NoErr THEN tok
            ELSE IF api.err # NoErr THEN api
            ELSE Ok(<<api.val, tok.val, ns.val>>)

\* ------------------------------------------------------------------ inputs

SeqsUpTo(S, n) == UNION {[1..k -> S] : k \in 0..n}

Letters == {"a", "s", "y", "S", "Y"}

\* kinds of up to MaxKindLen letters, and kinds spelled around "status"
KindInputs ==
    (SeqsUpTo(Letters, MaxKindLen) \ {<<>>})
    \cup {p \o st \o q : p \in SeqsUpTo(Letters, 1), q \in SeqsUpTo(Letters, 1),
                        st \in {Status, <<"S", "t", "a", "t", "u", "s">>}}

Pod == <<"P", "o", "d">>
Job == <<"J", "o", "b">>
Policy == <<"P", "o", "l", "i", "c", "y">>
Service == <<"S", "e", "r", "v", "i", "c", "e">>
Template == <<"T", "e", "m", "p", "l", "a", "t", "e">>
template == Lower(Template)
processedtemplates ==
    <<"p", "r", "o", "c", "e", "s", "s", "e", "d">> \o template \o <<"s">>
pods == <<"p", "o", "d", "s">>
jobs == <<"j", "o", "b", "s">>
policies == <<"p", "o", "l", "i", "c", "i", "e", "s">>
services == <<"s", "e", "r", "v", "i", "c", "e", "s">>
templates == template \o <<"s">>

EndpointVals == {NoneV, <<>>, Str("https://h1:8443"), Str("https://h2:8443")}
TokenVals == {NoneV, <<>>, Str("tok1"), Str("tok2")}
NamespaceVals == {NoneV, <<>>, Str("ns1"), Str("ns2")}

\* a cluster-config file with one context, one cluster and one user
MkConf(server, token, ns) ==
    [current |-> Str("ctx1"),
     contexts |-> <<[name |-> Str("ctx1"), cluster |-> Str("cl1"),
                     user |-> Str("usr1"), namespace |-> ns]>>,
     clusters |-> <<[name |-> Str("cl1"), server |-> server]>>,
     users |-> <<[name |-> Str("usr1"), token |-> token]>>]

\* the values of self.config_file: None, well-formed files, and a file whose
\* context names a cluster the file does not list
ConfigFiles ==
    {<<>>}
    \cup {<<MkConf(s, t, n)>> : s \in EndpointVals \ {NoneV},
                               t \in TokenVals \ {NoneV},
                               n \in NamespaceVals \ {<<>>}}
    \cup {<<[MkConf(Str("https://h1:8443"), Str("tok1"), NoneV)
              EXCEPT !.clusters = <<>>]>>}

ContextEntries ==
    [name : {Str("ctx1"), Str("ctx2")}, cluster : {Str("cl1")},
     user : {Str("usr1")}, namespace : {NoneV, Str("ns1")}]
ClusterEntries ==
    [name : {Str("cl1"), Str("cl2")},
     server : {Str("https://h1:8443"), Str("https://h2:8443")}]
UserEntries == [name : {Str("usr1"), Str("usr2")}, token : {Str("tok1")}]

\* parsed cluster-config files for _parse_kubeconf
KubeConfs ==
    [current : {Str("ctx1")},
     contexts : SeqsUpTo(ContextEntries, MaxEntries),
     clusters : SeqsUpTo(ClusterEntries, MaxEntries),
     users : SeqsUpTo(UserEntries, MaxEntries)]

\* ------------------------------------------------------------------ the object

\* the provider as constructed: the class attributes of lines 36-49
Init ==
    /\ pc = "ready"
    /\ op = "none"
    /\ args = <<>>
    /\ ret = NoneV
    /\ err = NoErr
    /\ providerapi = DefaultProviderApi
    /\ access_token = NoneV
    /\ namespace = DEFAULT_NAMESPACE
    /\ kubernetes_api = NoUrl
    /\ openshift_api = NoUrl
    /\ oapi_resources = {}
    /\ kapi_resources = {}
    /\ artifacts = <<>>
    /\ dryrun = FALSE
    /\ openshift_artifacts = <<>>
    /\ idx = 0
    /\ dkind = NoneV
    /\ dpos = 0
    /\ ddone = {}
    /\ http = <<>>
    /\ urls = {}
    /\ log = <<>>

config_vars == <<providerapi, access_token, namespace, kubernetes_api, openshift_api>>
catalog_vars == <<oapi_resources, kapi_resources>>
deploy_vars == <<dryrun, dkind, dpos, ddone>>
io_vars == <<http, urls, log>>

\* a method that has returned or raised
Finish(name, a, r) ==
    /\ op' = name
    /\ args' = a
    /\ ret' = r.val
    /\ err' = r.err
    /\ pc' = IF r.err = NoErr THEN "returned" ELSE "failed"

\* ------------------------------------------------------------------ pure methods

\* a call of _kind_to_resource(kind)
CallKindToResource(kind) ==
    /\ pc = "ready"
    /\ Finish("_kind_to_resource", <<kind>>, Ok(_kind_to_resource(kind)))
    /\ UNCHANGED <<config_vars, catalog_vars, artifacts, openshift_artifacts, idx,
                   deploy_vars, io_vars>>

\* a call of _parse_kubeconf(filename), the file parsing to kubecfg
CallParseKubeconf(kubecfg) ==
    /\ pc = "ready"
    /\ Finish("_parse_kubeconf", <<kubecfg>>, _parse_kubeconf(kubecfg))
    /\ UNCHANGED <<config_vars, catalog_vars, artifacts, openshift_artifacts, idx,
                   deploy_vars, io_vars>>

\* a call of _get_config_values() with self.config = answers and
\* self.config_file = config_file
CallGetConfigValues(answers, config_file) ==
    /\ pc = "ready"
    /\ Finish("_get_config_values", <<answers, config_file>>,
              _get_config_values(answers, config_file,
                                 <<providerapi, access_token, namespace>>))
    /\ UNCHANGED <<config_vars, catalog_vars, artifacts, openshift_artifacts, idx,
                   deploy_vars, io_vars>>

\* a call of _get_url(ns, kind, name) on a provider whose catalog is
\* (oapi, kapi), whose endpoint is endpoint and whose token is token
CallGetUrl(ns, kind, name, oapi, kapi, endpoint, token) ==
    /\ pc = "ready"
    /\ providerapi' = endpoint
    /\ access_token' = token
    /\ kubernetes_api' = KubernetesApi(endpoint)
    /\ openshift_api' = OpenshiftApi(endpoint)
    /\ oapi_resources' = oapi
    /\ kapi_resources' = kapi
    /\ LET url == _get_url(ns, kind, name, oapi, kapi, OpenshiftApi(endpoint),
                           KubernetesApi(endpoint), token)
       IN /\ Finish("_get_url", <<ns, kind, name>>, Ok(url))
          /\ urls' = urls \cup {url}
    /\ UNCHANGED <<namespace, artifacts, openshift_artifacts, idx, deploy_vars,
                   http, log>>

NextNamer == pc = "ready" /\ \E kind \in KindInputs : CallKindToResource(kind)

SpecNamer == Init /\ [][NextNamer]_vars

NextConfig ==
    \/ pc = "ready" /\ \E kubecfg \in KubeConfs : CallParseKubeconf(kubecfg)
    \/ pc = "ready" /\ \E a \in EndpointVals, t \in TokenVals, n \in NamespaceVals,
                          f \in ConfigFiles : CallGetConfigValues(<<a, t, n>>, f)

SpecConfig == Init /\ [][NextConfig]_vars

UrlResources == {pods, policies, jobs}

NextUrl ==
    /\ pc = "ready"
    /\ \E ns \in {Str("project1"), Str("default")},
          kind \in {Pod, Policy, Job, jobs},
          name \in {NoneV, <<>>, Str("dc1")},
          oapi \in SUBSET UrlResources, kapi \in SUBSET UrlResources,
          endpoint \in {DefaultProviderApi, Str("https://h1:8443")},
          token \in {NoneV, Str("tok1")} :
            CallGetUrl(ns, kind, name, oapi, kapi, endpoint, token)

SpecUrl == Init /\ [][NextUrl]_vars

\* ------------------------------------------------------------------ HTTP

\* what the transport does with a request: a response (status, body) or one
\* of the exceptions of the requests library
Resp(status, body) == [kind |-> "response", status |-> status, body |-> body]
Fails(kind) == [kind |-> kind, status |-> NoStatus, body |-> NoBody]
TransportErrors == {Fails("ConnectTimeout"), Fails("ReadTimeout"), Fails("ConnectionError")}

\* requests raises MissingSchema, a ValueError, for a URL without scheme and
\* host, before anything is sent
Sendable(url) == url.root # NoneV

\* OpenShiftProvider._make_request(method, url, data) when the transport
\* answers with outcome: (status_code, return_data) or an exception;
\* return_data None is a body with json = FALSE
_make_request(method, url, outcome) ==
    IF ~Sendable(url) THEN Ok(<<NoStatus, NoBody>>)
    ELSE CASE outcome.kind = "ConnectTimeout" ->
                Raise(Exc("ProviderFailedException", "Timeout when connecting"))
           [] outcome.kind = "ReadTimeout" ->
                Raise(Exc("ProviderFailedException", "Timeout when reading"))
           [] outcome.kind = "ConnectionError" ->
                Raise(Exc("ConnectionError", ""))
           [] OTHER ->
                Ok(<<outcome.status,
                     IF outcome.body.json THEN outcome.body ELSE NoBody>>)

\* the request log after method by called _make_request(method, url, ...)
Sent(log0, by, method, url, outcome) ==
    IF Sendable(url)
    THEN Append(log0, [by |-> by, method |-> method, url |-> url, outcome |-> outcome])
    ELSE log0

\* ------------------------------------------------------------------ discovery

\* the body of _get_kapi_resources / _get_oapi_resources after the GET
\* returned r = (status_code, return_data); what names the API group
ResourceList(r, what) ==
    IF r.err # NoErr THEN r
    ELSE LET status_code == r.val[1]
             return_data == r.val[2]
         IN IF status_code = 200
            THEN IF ~return_data.json
                 THEN Raise(Exc("TypeError", "NoneType is not subscriptable"))
                 ELSE IF ~return_data.has
                 THEN Raise(Exc("KeyError", "resources"))
                 ELSE IF \E i \in 1..Len(return_data.items) : return_data.items[i] = NoneV
                 THEN Raise(Exc("KeyError", "name"))
                 ELSE Ok(return_data.items)
            ELSE Raise(Exc("ProviderFailedException", what))

_get_kapi_resources(url, outcome) ==
    ResourceList(_make_request("get", url, outcome), "Cannot get Kubernetes resource list")

_get_oapi_resources(url, outcome) ==
    ResourceList(_make_request("get", url, outcome), "Cannot get OpenShift resource list")

DiscoveryBodies ==
    {NoBody, Body(TRUE, FALSE, <<>>)}
    \cup {Body(TRUE, TRUE, items) : items \in SeqsUpTo({pods, services, NoneV}, MaxEntries)}

DiscoveryOutcomes ==
    TransportErrors \cup {Resp(st, b) : st \in {200, 500}, b \in DiscoveryBodies}

\* a call of _get_kapi_resources() on a provider whose API bases are those
\* of lines 58-59
CallGetKapiResources(outcome) ==
    /\ pc = "ready"
    /\ kubernetes_api' = KubernetesApi(providerapi)
    /\ openshift_api' = OpenshiftApi(providerapi)
    /\ http' = Sent(http, "_get_kapi_resources", "get", KubernetesApi(providerapi), outcome)
    /\ Finish("_get_kapi_resources", <<outcome>>,
              _get_kapi_resources(KubernetesApi(providerapi), outcome))
    /\ UNCHANGED <<providerapi, access_token, namespace, catalog_vars, artifacts,
                   openshift_artifacts, idx, deploy_vars, urls, log>>

\* a call of _get_oapi_resources(), likewise
CallGetOapiResources(outcome) ==
    /\ pc = "ready"
    /\ kubernetes_api' = KubernetesApi(providerapi)
    /\ openshift_api' = OpenshiftApi(providerapi)
    /\ http' = Sent(http, "_get_oapi_resources", "get", OpenshiftApi(providerapi), outcome)
    /\ Finish("_get_oapi_resources", <<outcome>>,
              _get_oapi_resources(OpenshiftApi(providerapi), outcome))
    /\ UNCHANGED <<providerapi, access_token, namespace, catalog_vars, artifacts,
                   openshift_artifacts, idx, deploy_vars, urls, log>>

\* ------------------------------------------------------------------ init()

\* init(): lines 52-59 run; line 64 then calls _get_oapi_resources, which
\* takes no argument besides self, with self.providerapi: a TypeError, raised
\* before the method body runs. Lines 65 and 67 are never reached.
CallInit(answers, config_file) ==
    /\ pc = "ready"
    /\ op' = "init"
    /\ args' = <<answers, config_file>>
    /\ ret' = NoneV
    /\ pc' = "failed"
    /\ openshift_artifacts' = <<>>
    /\ LET r == _get_config_values(answers, config_file,
                                   <<providerapi, access_token, namespace>>)
       IN IF r.err # NoErr
          THEN /\ err' = r.err
               /\ UNCHANGED config_vars
          ELSE /\ providerapi' = r.val[1]
               /\ access_token' = r.val[2]
               /\ namespace' = r.val[3]
               /\ kubernetes_api' = KubernetesApi(r.val[1])
               /\ openshift_api' = OpenshiftApi(r.val[1])
               /\ err' = Exc("TypeError", "_get_oapi_resources() takes exactly 1 argument (2 given)")
    /\ UNCHANGED <<catalog_vars, artifacts, idx, deploy_vars, io_vars>>

\* ------------------------------------------------------------------ artifacts
\* A manifest or an object is [kind, name, ns]: its "kind" (NoneV when the
\* key is missing), metadata.name and metadata.namespace (NoneV when
\* missing). In the registry an object also carries src = <<i, j>>, the
\* identity of the Python object: manifest i itself (j = 0) or the j-th
\* object of the expansion of manifest i.

Art(kind, name, ns) == [kind |-> kind, name |-> name, ns |-> ns]

Manifests ==
    {Art(Pod, Str("web"), NoneV), Art(Pod, NoneV, Str("ns1")),
     Art(Template, Str("tpl"), NoneV), Art(Template, NoneV, Str("ns1")),
     Art(Job, Str("job1"), NoneV), Art(NoneV, Str("x"), NoneV)}

SvcObj == Art(Service, Str("svc1"), NoneV)
PodObj == Art(Pod, Str("p2"), Str("ns1"))
NoKindObj == Art(NoneV, Str("y"), NoneV)

\* the "objects" lists a template expansion returns
TemplateObjectLists ==
    {<<>>, <<SvcObj>>, <<PodObj, SvcObj>>, <<SvcObj, PodObj>>, <<PodObj, PodObj>>,
     <<NoKindObj>>, <<SvcObj, NoKindObj>>}

\* the catalogs (oapi_resources, kapi_resources) of the sessions
Catalogs ==
    {<<{templates, processedtemplates}, {pods, services}>>,
     <<{templates}, {pods}>>,
     <<{templates, processedtemplates, pods}, {pods, services}>>}

TemplateOutcomes ==
    TransportErrors
    \cup {Resp(201, b) : b \in {NoBody, Body(TRUE, FALSE, <<>>)}}
    \cup {Resp(201, Body(TRUE, TRUE, objs)) : objs \in TemplateObjectLists}
    \cup {Resp(200, NoBody), Resp(500, Body(TRUE, FALSE, <<>>))}

DeployOutcomes ==
    TransportErrors
    \cup {Resp(201, Body(TRUE, FALSE, <<>>)), Resp(200, NoBody),
          Resp(500, Body(TRUE, FALSE, <<>>))}

Tag(a, i, j) == [kind |-> a.kind, name |-> a.name, ns |-> a.ns, src |-> <<i, j>>]

\* OpenShiftProvider._get_namespace
_get_namespace(artifact) == IF artifact.ns # NoneV THEN artifact.ns ELSE namespace

RegAppend_prepend(reg, kind, obj) ==
    IF kind \in DOMAIN reg
    THEN [reg EXCEPT ![kind] = <<obj>> \o @]
    ELSE [k \in DOMAIN reg \cup {kind} |-> IF k = kind THEN <<obj>> ELSE reg[k]]

\* lines 176-178 / 182-184: append obj to the list under kind
RegAppend(reg, kind, obj) ==
    IF kind \in DOMAIN reg
    THEN [reg EXCEPT ![kind] = Append(@, obj)]
    ELSE [k \in DOMAIN reg \cup {kind} |-> IF k = kind THEN <<obj>> ELSE reg[k]]

RECURSIVE AddObjects(_, _, _, _)
\* lines 174-178 from the j-th processed object on: the registry, or the
\* KeyError of an object without "kind" (the objects before it are in)
AddObjects(reg, objs, i, j) ==
    IF j > Len(objs) THEN [err |-> NoErr, reg |-> reg]
    ELSE IF objs[j].kind = NoneV THEN [err |-> Exc("KeyError", "kind"), reg |-> reg]
    ELSE AddObjects(RegAppend(reg, Lower(objs[j].kind), Tag(objs[j], i, j)), objs, i, j + 1)

\* OpenShiftProvider._process_template after the POST returned r
_process_template(tmpl, r) ==
    IF r.err # NoErr THEN r
    ELSE LET status_code == r.val[1]
             return_data == r.val[2]
         IN IF status_code = 201
            THEN IF tmpl.name = NoneV THEN Raise(Exc("KeyError", "name"))
                 ELSE IF ~return_data.json
                 THEN Raise(Exc("TypeError", "NoneType is not subscriptable"))
                 ELSE IF ~return_data.has THEN Raise(Exc("KeyError", "objects"))
                 ELSE Ok(return_data.items)
            ELSE Raise(ExcResp(status_code, return_data))

TemplateUrl(tmpl) ==
    _get_url(_get_namespace(tmpl), processedtemplates, NoneV, oapi_resources,
             kapi_resources, openshift_api, kubernetes_api, access_token)

\* lines 157-168: the error that rejects manifest data, NoErr when it passes
Validate(data) ==
    IF data.kind = NoneV THEN Exc("ProviderFailedException", "There is no kind")
    ELSE IF /\ _kind_to_resource(Lower(data.kind)) \notin oapi_resources
            /\ _kind_to_resource(Lower(data.kind)) \notin kapi_resources
         THEN Exc("ProviderFailedException", "Unsupported kind")
         ELSE NoErr

IsTemplate(data) == data.kind # NoneV /\ Lower(data.kind) = template

\* a call of _process_artifacts() on a provider whose manifests are arts,
\* whose catalog is cat and whose API bases are those of lines 58-59
CallProcessArtifacts(arts, cat) ==
    /\ pc = "ready"
    /\ op' = "_process_artifacts"
    /\ args' = <<arts, cat>>
    /\ artifacts' = arts
    /\ oapi_resources' = cat[1]
    /\ kapi_resources' = cat[2]
    /\ kubernetes_api' = KubernetesApi(providerapi)
    /\ openshift_api' = OpenshiftApi(providerapi)
    /\ idx' = 1
    /\ pc' = "processing"
    /\ UNCHANGED <<ret, err, providerapi, access_token, namespace,
                   openshift_artifacts, deploy_vars, io_vars>>

\* one round of the loop of _process_artifacts for a manifest that is
\* rejected or is no template
ProcessManifest ==
    /\ pc = "processing"
    /\ idx <= Len(artifacts)
    /\ LET data == artifacts[idx] IN
       /\ Validate(data) # NoErr \/ ~IsTemplate(data)
       /\ IF Validate(data) # NoErr
          THEN /\ err' = Validate(data)
               /\ pc' = "failed"
               /\ UNCHANGED <<openshift_artifacts, idx>>
          ELSE /\ openshift_artifacts' =
                      RegAppend(openshift_artifacts, Lower(data.kind), Tag(data, idx, 0))
               /\ idx' = idx + 1
               /\ UNCHANGED <<err, pc>>
    /\ UNCHANGED <<op, args, ret, config_vars, catalog_vars, artifacts,
                   deploy_vars, io_vars>>

\* one round of the loop for a template: lines 171-179, the transport
\* answering the POST with outcome
ProcessTemplate(outcome) ==
    /\ pc = "processing"
    /\ idx <= Len(artifacts)
    /\ LET data == artifacts[idx]
           url == TemplateUrl(data)
           objs == _process_template(data, _make_request("post", url, outcome))
           added == AddObjects(openshift_artifacts, objs.val, idx, 1)
       IN
       /\ Validate(data) = NoErr
       /\ IsTemplate(data)
       /\ urls' = urls \cup {url}
       /\ http' = Sent(http, "_process_template", "post", url, outcome)
       /\ IF objs.err # NoErr
          THEN /\ err' = objs.err
               /\ pc' = "failed"
               /\ UNCHANGED <<openshift_artifacts, idx>>
          ELSE /\ openshift_artifacts' = added.reg
               /\ IF added.err # NoErr
                  THEN /\ err' = added.err
                       /\ pc' = "failed"
                       /\ UNCHANGED idx
                  ELSE /\ idx' = idx + 1
                       /\ UNCHANGED <<err, pc>>
    /\ UNCHANGED <<op, args, ret, config_vars, catalog_vars, artifacts,
                   deploy_vars, log>>

\* the loop of _process_artifacts is over
ProcessDone ==
    /\ pc = "processing"
    /\ idx > Len(artifacts)
    /\ pc' = "processed"
    /\ UNCHANGED <<op, args, ret, err, config_vars, catalog_vars, artifacts,
                   openshift_artifacts, idx, deploy_vars, io_vars>>

\* ------------------------------------------------------------------ deploy()

\* a call of deploy() after _process_artifacts, with self.dryrun = dry
CallDeploy(dry) ==
    /\ pc = "processed"
    /\ op' = "deploy"
    /\ dryrun' = dry
    /\ dkind' = NoneV
    /\ dpos' = 0
    /\ ddone' = {}
    /\ pc' = "deploying"
    /\ UNCHANGED <<args, ret, err, config_vars, catalog_vars, artifacts,
                   openshift_artifacts, idx, io_vars>>

ListDone == IF dkind = NoneV THEN TRUE ELSE dpos = Len(openshift_artifacts[dkind])

Walked == IF dkind = NoneV THEN ddone ELSE ddone \cup {dkind}

\* (kind, i) is the artifact the loops of deploy() reach next: the next of
\* the current list, or the first of a kind not yet walked (iteritems()
\* yields the kinds in an order the program does not choose)
IsNext(kind, i) ==
    \/ /\ ~ListDone
       /\ kind = dkind
       /\ i = dpos + 1
    \/ /\ ListDone
       /\ kind \in DOMAIN openshift_artifacts \ Walked
       /\ i = 1

Advance(kind, i) ==
    /\ dkind' = kind
    /\ dpos' = i
    /\ ddone' = IF kind = dkind THEN ddone ELSE Walked

DeployUrl(kind, artifact) ==
    _get_url(_get_namespace(artifact), kind, NoneV, oapi_resources, kapi_resources,
             openshift_api, kubernetes_api, access_token)

DeployResult_keeps_going(artifact, r) ==
    IF r.err # NoErr THEN r.err
    ELSE IF artifact.name = NoneV /\ r.val[1] = 201 THEN Exc("KeyError", "name") ELSE NoErr

\* lines 134-143 after the POST returned r: NoErr (the object is deployed)
\* or the exception that ends deploy()
DeployResult(artifact, r) ==
    IF r.err # NoErr THEN r.err
    ELSE IF r.val[1] = 201
         THEN IF artifact.name = NoneV THEN Exc("KeyError", "name") ELSE NoErr
         ELSE ExcResp(r.val[1], r.val[2])

DeployDryRun_posts_first(kind, i) ==
    /\ pc = "deploying"
    /\ dryrun
    /\ IsNext(kind, i)
    /\ Advance(kind, i)
    /\ LET url == DeployUrl(kind, openshift_artifacts[kind][i])
       IN /\ urls' = urls \cup {url}
          /\ http' = Sent(http, "deploy", "post", url, Resp(201, NoBody))
          /\ log' = Append(log, [msg |-> "DRY-RUN", url |-> url])
    /\ UNCHANGED <<pc, op, args, ret, err, config_vars, catalog_vars, artifacts,
                   dryrun, openshift_artifacts, idx>>

\* one round of the loops of deploy() in dry-run mode: lines 128-133
DeployDryRun(kind, i) ==
    /\ pc = "deploying"
    /\ dryrun
    /\ IsNext(kind, i)
    /\ Advance(kind, i)
    /\ LET url == DeployUrl(kind, openshift_artifacts[kind][i])
       IN /\ urls' = urls \cup {url}
          /\ log' = Append(log, [msg |-> "DRY-RUN", url |-> url])
    /\ UNCHANGED <<pc, op, args, ret, err, config_vars, catalog_vars, artifacts,
                   dryrun, openshift_artifacts, idx, http>>

\* one round of the loops of deploy() otherwise: lines 128-143, the
\* transport answering the POST with outcome
DeployPost(kind, i, outcome) ==
    /\ pc = "deploying"
    /\ ~dryrun
    /\ IsNext(kind, i)
    /\ Advance(kind, i)
    /\ LET artifact == openshift_artifacts[kind][i]
           url == DeployUrl(kind, artifact)
           e == DeployResult(artifact, _make_request("post", url, outcome))
       IN /\ urls' = urls \cup {url}
          /\ http' = Sent(http, "deploy", "post", url, outcome)
          /\ err' = e
          /\ pc' = IF e = NoErr THEN "deploying" ELSE "failed"
          /\ log' = IF e = NoErr
                    THEN Append(log, [msg |-> "deployed", url |-> url])
                    ELSE log
    /\ UNCHANGED <<op, args, ret, config_vars, catalog_vars, artifacts, dryrun,
                   openshift_artifacts, idx>>

\* both loops of deploy() are over
DeployDone ==
    /\ pc = "deploying"
    /\ ListDone
    /\ DOMAIN openshift_artifacts \subseteq Walked
    /\ pc' = "deployed"
    /\ UNCHANGED <<op, args, ret, err, config_vars, catalog_vars, artifacts,
                   openshift_artifacts, idx, deploy_vars, io_vars>>

\* ------------------------------------------------------------------ sessions

Next ==
    \/ pc = "ready" /\ \E a \in EndpointVals, t \in TokenVals, n \in NamespaceVals,
                          f \in ConfigFiles : CallInit(<<a, t, n>>, f)
    \/ pc = "ready" /\ \E outcome \in DiscoveryOutcomes : CallGetKapiResources(outcome)
    \/ pc = "ready" /\ \E outcome \in DiscoveryOutcomes : CallGetOapiResources(outcome)
    \/ pc = "ready" /\ \E arts \in SeqsUpTo(Manifests, MaxManifests), cat \in Catalogs :
                          CallProcessArtifacts(arts, cat)
    \/ ProcessManifest
    \/ \E outcome \in TemplateOutcomes : ProcessTemplate(outcome)
    \/ ProcessDone
    \/ \E dry \in BOOLEAN : CallDeploy(dry)
    \/ \E kind \in DOMAIN openshift_artifacts :
          \E i \in 1..Len(openshift_artifacts[kind]) : DeployDryRun(kind, i)
    \/ \E kind \in DOMAIN openshift_artifacts, outcome \in DeployOutcomes :
          \E i \in 1..Len(openshift_artifacts[kind]) : DeployPost(kind, i, outcome)
    \/ DeployDone

Spec == Init /\ [][Next]_vars

\* ------------------------------------------------------------------ properties

\* the requests deploy() issued
DeployRequests == {i \in 1..Len(http) : http[i].by = "deploy"}

\* the places of the registry: <<kind, position>>
Slots ==
    UNION {{<<k, i>> : i \in 1..Len(openshift_artifacts[k])} : k \in DOMAIN openshift_artifacts}

Refused(i) == http[i].outcome.kind = "response" /\ http[i].outcome.status # 201

\* C1: in a deploy() that is no dry run, a POST answered with a status other
\* than 201 is the last request of the session: deploy() has raised
\* ProviderFailedException with that status and body, no POST follows for the
\* artifacts that remain, and deploy() issues nothing but POSTs (no DELETE).
C1_AbortOnFirstFailure ==
    (op = "deploy" /\ ~dryrun) =>
        \A i \in DeployRequests :
            /\ http[i].method = "post"
            /\ Refused(i) =>
                  /\ i = Len(http)
                  /\ pc = "failed"
                  /\ err.type = "ProviderFailedException"
                  /\ err.status = http[i].outcome.status
                  /\ err.body = (IF http[i].outcome.body.json
                                 THEN http[i].outcome.body ELSE NoBody)

\* a deploy() refused after an earlier artifact got 201, with artifacts left
C1_Witness ==
    /\ op = "deploy"
    /\ ~dryrun
    /\ pc = "failed"
    /\ \E i \in DeployRequests, j \in DeployRequests :
          j < i /\ Refused(i) /\ http[j].outcome.status = 201
    /\ \E s \in Slots : s[1] \notin Walked \/ (s[1] = dkind /\ s[2] > dpos)

\* the conflict-free value of one field, by the rule of the specification
FieldRule(a, p, default) ==
    IF Truthy(a) /\ Truthy(p) THEN a
    ELSE IF Truthy(a) THEN a
    ELSE IF Truthy(p) THEN p
    ELSE default

FieldConflict(a, p) == Truthy(a) /\ Truthy(p) /\ a # p

\* C2: for endpoint, token and namespace and every pair of answers value and
\* config-file value, _get_config_values gives the common value when both
\* are non-empty and equal, the one non-empty value when there is one, and
\* the compiled-in default when there is none; when the two are non-empty and
\* differ for any field it raises the conflict error and returns no triple.
C2_ConfigResolution ==
    (op = "_get_config_values" /\ (args[2] = <<>> \/ Len(args[2][1].clusters) = 1)) =>
        LET a == args[1]
            f == args[2]
            p == IF f = <<>> THEN <<NoneV, NoneV, NoneV>>
                 ELSE <<f[1].clusters[1].server, f[1].users[1].token,
                        f[1].contexts[1].namespace>>
        IN IF \E k \in 1..3 : FieldConflict(a[k], p[k])
           THEN /\ pc = "failed"
                /\ err = Exc("ProviderFailedException", "conflicting values")
                /\ ret = NoneV
           ELSE /\ pc = "returned"
                /\ ret = <<FieldRule(a[1], p[1], Str("https://127.0.0.1:8443")),
                           FieldRule(a[2], p[2], NoneV),
                           FieldRule(a[3], p[3], Str("default"))>>

\* a resolution that takes one field from the answers, one from the file and
\* one from the defaults
C2_Witness ==
    /\ op = "_get_config_values"
    /\ pc = "returned"
    /\ args[2] # <<>>
    /\ Truthy(args[1][3])
    /\ ~Truthy(args[1][2])
    /\ ret[2] = Str("tok1")
    /\ ret[3] = args[1][3]
    /\ ret[1] = Str("https://127.0.0.1:8443")

\* a resolution that met a conflict on the endpoint alone
C2_ConflictWitness ==
    /\ op = "_get_config_values"
    /\ pc = "failed"
    /\ args[2] # <<>>
    /\ err.msg = "conflicting values"
    /\ args[1][3] = NoneV
    /\ args[1][2] = NoneV

\* C3: a dry-run deploy() issues no HTTP request and raises nothing, and when
\* it has returned it has logged, for every URL, as many DRY-RUN lines as the
\* registry holds artifacts with that URL: one line per artifact.
C3_DryRun ==
    (op = "deploy" /\ dryrun) =>
        /\ DeployRequests = {}
        /\ err = NoErr
        /\ pc \in {"deploying", "deployed"}
        /\ \A i \in 1..Len(log) : log[i].msg = "DRY-RUN"
        /\ pc = "deployed" =>
              /\ Len(log) = Cardinality(Slots)
              /\ \A s \in Slots :
                    LET u == DeployUrl(s[1], openshift_artifacts[s[1]][s[2]])
                    IN Cardinality({i \in 1..Len(log) : log[i].url = u})
                       = Cardinality({t \in Slots :
                            DeployUrl(t[1], openshift_artifacts[t[1]][t[2]]) = u})

\* a finished dry run over a registry of two kinds and three artifacts
C3_Witness ==
    /\ op = "deploy"
    /\ dryrun
    /\ pc = "deployed"
    /\ Cardinality(DOMAIN openshift_artifacts) >= 2
    /\ Len(log) >= 3

\* the answers to the template POSTs, in order
TemplatePosts ==
    LET ByTemplate(e) == e.by = "_process_template" IN SelectSeq(http, ByTemplate)

TemplateManifests == {i \in 1..Len(artifacts) : Lower(artifacts[i].kind) = template}

\* the "objects" list returned for template manifest i
Returned(i) ==
    TemplatePosts[Cardinality({j \in TemplateManifests : j <= i})].outcome.body.items

\* C4: when _process_artifacts has completed, no template manifest is in the
\* registry; every object is under its own lower-cased kind; for each template
\* manifest the registry holds exactly the objects its 201 response returned,
\* each once; and every list is in manifest order and, within one expansion,
\* in the order returned.
C4_TemplateExpansion ==
    pc = "processed" =>
        LET reg == openshift_artifacts IN
        /\ \A s \in Slots :
              LET o == reg[s[1]][s[2]] IN
              /\ Lower(o.kind) = s[1]
              /\ o.src[2] = 0 => o.src[1] \notin TemplateManifests
              /\ o.src[2] # 0 =>
                    /\ o.src[1] \in TemplateManifests
                    /\ o.src[2] \in 1..Len(Returned(o.src[1]))
                    /\ o = Tag(Returned(o.src[1])[o.src[2]], o.src[1], o.src[2])
        /\ \A i \in TemplateManifests :
              \A j \in 1..Len(Returned(i)) :
                 Cardinality({s \in Slots : reg[s[1]][s[2]].src = <<i, j>>}) = 1
        /\ \A k \in DOMAIN reg :
              \A p \in 1..Len(reg[k]), q \in 1..Len(reg[k]) :
                 p < q =>
                    \/ reg[k][p].src[1] < reg[k][q].src[1]
                    \/ /\ reg[k][p].src[1] = reg[k][q].src[1]
                       /\ reg[k][p].src[2] < reg[k][q].src[2]

\* a completed run whose "pod" list holds a manifest and then two objects of
\* one expansion
C4_Witness ==
    /\ pc = "processed"
    /\ TemplateManifests # {}
    /\ \E k \in DOMAIN openshift_artifacts :
          /\ Len(openshift_artifacts[k]) >= 3
          /\ openshift_artifacts[k][1].src[2] = 0
          /\ openshift_artifacts[k][2].src[2] = 1
          /\ openshift_artifacts[k][3].src[2] = 2

IsGet(i, api) ==
    /\ http[i].method = "get"
    /\ http[i].url = api
    /\ http[i].outcome.kind = "response"
    /\ http[i].outcome.status = 200

\* C5: a session whose init() got past the configuration has issued exactly
\* one GET to the core API base and exactly one to the extended API base, both
\* answered 200.
C5_DiscoveryOncePerGroup ==
    (op = "init" /\ kubernetes_api # NoUrl) =>
        /\ Cardinality({i \in 1..Len(http) : IsGet(i, kubernetes_api)}) = 1
        /\ Cardinality({i \in 1..Len(http) : IsGet(i, openshift_api)}) = 1

\* the answer to a discovery GET is not a 200 with a "resources" list of
\* named objects
BadDiscovery(outcome) ==
    /\ outcome.kind = "response"
    /\ \/ outcome.status # 200
       \/ ~outcome.body.json
       \/ ~outcome.body.has
       \/ \E i \in 1..Len(outcome.body.items) : outcome.body.items[i] = NoneV

\* C6: a discovery GET answered with a status other than 200, or with 200
\* and a body that is no JSON or has no "resources" list of named objects,
\* ends in ProviderFailedException "Cannot get ... resource list" and in no
\* other error.
C6_DiscoveryFailure ==
    (op \in {"_get_kapi_resources", "_get_oapi_resources"} /\ BadDiscovery(args[1])) =>
        /\ pc = "failed"
        /\ err.type = "ProviderFailedException"
        /\ err.msg \in {"Cannot get Kubernetes resource list",
                        "Cannot get OpenShift resource list"}

\* the reference rule of the specification: one trailing "y" is replaced
KindToResourceRule(kind) ==
    LET s == Lower(kind)
        n == Len(s)
    IN IF EndsWith(s, Status) THEN s \o <<"e", "s">>
       ELSE IF s[n] = "s" THEN s
       ELSE IF s[n] = "y" THEN SubSeq(s, 1, n - 1) \o <<"i", "e", "s">>
       ELSE s \o <<"s">>

\* C7: for every non-empty kind _kind_to_resource returns what the reference
\* rule gives, and a result that ends in "s" but not in "status" is mapped to
\* itself.
C7_ReferenceRule ==
    op = "_kind_to_resource" =>
        /\ ret = KindToResourceRule(args[1])
        /\ (ret[Len(ret)] = "s" /\ ~EndsWith(ret, Status)) => _kind_to_resource(ret) = ret

Names(list) == {list[i].name : i \in 1..Len(list)}

\* the chain current-context -> context -> cluster, user of kubecfg breaks
BrokenChain(kubecfg) ==
    \/ kubecfg.current \notin Names(kubecfg.contexts)
    \/ \E i \in 1..Len(kubecfg.contexts) :
          /\ kubecfg.contexts[i].name = kubecfg.current
          /\ \A j \in (i + 1)..Len(kubecfg.contexts) :
                kubecfg.contexts[j].name # kubecfg.current
          /\ \/ kubecfg.contexts[i].cluster \notin Names(kubecfg.clusters)
             \/ kubecfg.contexts[i].user \notin Names(kubecfg.users)

\* C8: when the current context, its cluster or its user is not in the file,
\* _parse_kubeconf raises ProviderFailedException "Invalid <file>", no other
\* error, and returns no triple.
C8_MalformedConfig ==
    (op = "_parse_kubeconf" /\ BrokenChain(args[1])) =>
        /\ pc = "failed"
        /\ err = Exc("ProviderFailedException", "Invalid")
        /\ ret = NoneV

\* C9: _get_url returns a URL under {endpoint}/oapi/v1/ when the plural of
\* the kind is in the extended set (also when it is in both sets) and under
\* {endpoint}/api/v1/ when it is in the core set only; the path goes on with
\* namespaces/<namespace>/<resource>/; a name segment follows exactly when a
\* non-empty name was passed.
C9_UrlRouting ==
    op = "_get_url" =>
        LET resource == _kind_to_resource(args[2])
            n == Len(ret.dirs)
        IN
        /\ resource \in oapi_resources =>
              /\ ret.root = providerapi
              /\ ret.dirs = <<Str("oapi"), Str("v1"), Str("namespaces"), args[1], resource>>
        /\ (resource \in kapi_resources /\ resource \notin oapi_resources) =>
              /\ ret.root = providerapi
              /\ ret.dirs = <<Str("api"), Str("v1"), Str("namespaces"), args[1], resource>>
        /\ n >= 3
        /\ SubSeq(ret.dirs, n - 2, n) = <<Str("namespaces"), args[1], resource>>
        /\ ret.file = (IF Truthy(args[3]) THEN args[3] ELSE <<>>)

\* a named URL for a resource that both sets list
C9_Witness ==
    /\ op = "_get_url"
    /\ _kind_to_resource(args[2]) \in oapi_resources \cap kapi_resources
    /\ args[3] = Str("dc1")
    /\ ret.file = Str("dc1")

\* a manifest was rejected by lines 157-168
Rejected == err.msg \in {"There is no kind", "Unsupported kind"}

\* C10: in a session none of whose manifests was rejected, every URL
\* _get_url built has an API base: its resource is in the extended or in the
\* core set.
C10_BaseAlwaysSelected ==
    (op \in {"_process_artifacts", "deploy"} /\ ~Rejected) =>
        \A u \in urls : u.root # NoneV

====
